---- MODULE Spec2Model ----
(***************************************************************************)
(* A model of the crawl engine of gsearch.py (class AsyncWebCrawler): the  *)
(* URL helpers, the rate-limited fetch, the batched breadth-first crawl of *)
(* one domain and the orchestrator that crawls several domains at once.    *)
(*                                                                         *)
(* The crawler runs on one asyncio event loop, so a coroutine runs without *)
(* interruption between two awaits.  Each action below is one such         *)
(* uninterrupted stretch of code.                                          *)
(*                                                                         *)
(* Spec and SpecDeep are one orchestration of a newly constructed crawler; *)
(* SpecReuse calls the orchestration again on the same object, SpecCancel  *)
(* lets the caller cancel it, and SpecUrl calls the URL helpers alone.     *)
(* SpecLive is the crawl of one seed under fair scheduling.                *)
(*                                                                         *)
(* The search side of the repository is modelled next to it: the LRUCache  *)
(* of search/cache.py called by one caller (SpecCache) and by several      *)
(* threads (SpecThreads), and GoogleSearchService.search of                *)
(* search/__init__.py over that cache and the search client (SpecSearch).  *)
(***************************************************************************)
EXTENDS Integers, Sequences, FiniteSets, TLC

\* ------------------------------------------------------------------ bounds
\* The largest max_concurrent, max_depth and max_pages_per_domain a crawler
\* is constructed with, the largest number of anchors on one page and the
\* longest list of seed URLs.
MaxConcurrent == 2
MaxDepth == 2
MaxPages == 5
MaxLinks == 3
MaxSeeds == 2

\* The largest number of times the caller of one crawler object calls
\* crawl_multiple_domains on it (SpecReuse).
MaxInvocations == 2

\* The largest max_size an LRUCache is constructed with, the largest number
\* of calls made on one cache, and the number of threads that use one cache
\* at a time.
MaxCacheSize == 2
MaxCacheOps == 4
MaxThreads == 2

\* The depths and budgets of the crawlers whose orchestration of several
\* domains is explored (Spec); the crawl of one domain is explored up to
\* MaxDepth and MaxPages (SpecDeep).
ShallowDepths == 0..1
ShallowBudgets == 1..2

\* The depths and budgets of the crawlers whose termination is explored
\* (SpecLive): enough for a page that links to itself, for two pages that
\* link to each other, and for a crawl stopped by its depth or its budget.
LiveDepths == 1..2
LiveBudgets == 1..3

\* ------------------------------------------------------------------- URLs
\* A URL as urlparse splits it.  The path is kept as its part before the
\* final extension and that extension; params, query and fragment are one
\* field, since normalize_url drops them together.
Url(netloc, stem, ext, query) ==
    [scheme |-> "http", netloc |-> netloc, stem |-> stem, ext |-> ext, query |-> query]

\* str.lower() on the strings that occur in the model.
Lower(s) ==
    CASE s = "A.test" -> "a.test"
      [] s = ".PDF" -> ".pdf"
      [] OTHER -> s

\* The hrefs a page of the modelled web can carry, made absolute by urljoin.
Hrefs ==
    { Url(n, s, "", "") : n \in {"a.test", "A.test"}, s \in {"/", "/x"} }
      \cup { Url("a.test", "/", "", "q=1"), Url("a.test", "/x", ".PDF", ""),
             Url("b.test", "/", "", "") }

\* The URLs a caller passes as seeds.
SeedUrls ==
    { Url("a.test", "/", "", "q=1"), Url("A.test", "/x", "", ""), Url("b.test", "/", "", "") }

\* The URLs, as urlparse splits them, and the base domains the URL helpers
\* are called with (SpecUrl): other schemes than http, a host in another
\* case, a subdomain, no host, and a host urlparse refuses ("[::1", an
\* IPv6 literal left open).
UrlInputs ==
    [ scheme : {"http", "https", "ftp", ""},
      netloc : {"a.test", "A.test", "www.a.test", "", "[::1"},
      stem : {"/", "/x"},
      ext : {"", ".PDF", ".js"},
      query : {"", "q=1", "q=1#f"} ]

BaseDomains == {"a.test", "b.test"}

\* urlparse raises ValueError on a URL it cannot split.
urlparse_raises(url) == url.netloc = "[::1"

skip_extensions ==
    { ".pdf", ".doc", ".docx", ".xls", ".xlsx", ".ppt", ".pptx", ".zip", ".rar",
      ".tar", ".gz", ".jpg", ".jpeg", ".png", ".gif", ".svg", ".mp4", ".avi",
      ".mp3", ".wav", ".css", ".js" }

\* Mutant: only the last of the trailing parts is cut off, the fragment
\* when there is one and the query otherwise.
normalize_url_last_part(url) ==
    [url EXCEPT !.query = IF @ = "q=1#f" THEN "q=1" ELSE ""]

normalize_url(url) == [url EXCEPT !.query = ""]

get_domain(url) == Lower(url.netloc)

\* Mutant: the same-domain test is left out.
is_valid_url_any_domain(url, base_domain) ==
    IF urlparse_raises(url) THEN FALSE
    ELSE IF url.scheme = "" \/ url.netloc = "" THEN FALSE
    ELSE Lower(url.ext) \notin skip_extensions

\* The try block returns False when anything in it raises.
is_valid_url(url, base_domain) ==
    IF urlparse_raises(url) THEN FALSE
    ELSE IF url.scheme = "" \/ url.netloc = "" THEN FALSE
    ELSE IF Lower(url.netloc) # base_domain THEN FALSE
    ELSE Lower(url.ext) \notin skip_extensions

Domains == { get_domain(u) : u \in SeedUrls \cup Hrefs }

\* ------------------------------------------------------------------ state
VARIABLES
    max_concurrent,         \* self.max_concurrent
    max_depth,              \* self.max_depth
    max_pages_per_domain,   \* self.max_pages_per_domain
    semaphore,              \* free permits of self.semaphore
    visited_urls,           \* self.visited_urls
    domain_page_count,      \* self.domain_page_count, a defaultdict(int)
    crawl_queue,            \* self.crawl_queue, a defaultdict(deque)
    urls,                   \* the argument of crawl_multiple_domains
    orch_pc,                \* where crawl_multiple_domains stands
    domains_to_crawl,       \* its dict domain -> seed, in insertion order
    domain_results,         \* the dict it returns
    crawl_pc,               \* per crawl_domain task: where it stands
    discovered_by_depth,    \* per crawl_domain task: its local result
    current_batch,          \* per crawl_domain task: the batch being fetched
    fetch,                  \* per crawl_domain task: its fetch_page tasks
    ok_urls,                \* history: URLs answered with 200 and a body
    rejected,               \* history: links is_valid_url refused in the last step
    earlier_results,        \* the caller: what its earlier invocations returned
    call,                   \* the caller: a call of a URL helper and its result
    max_size,               \* LRUCache: self.max_size
    _data,                  \* LRUCache: self._data, an OrderedDict, oldest entry first
    threads,                \* per thread that calls the cache: its call, where it stands
    enable_cache,           \* settings.enable_cache: whether the service has a cache
    searches,               \* per GoogleSearchService.search coroutine: where it stands
    uses                    \* history: the clock of the calls, when each key was
                            \* last used, the value last put for it, the keys stored

vars ==
    << max_concurrent, max_depth, max_pages_per_domain, semaphore, visited_urls,
       domain_page_count, crawl_queue, urls, orch_pc, domains_to_crawl,
       domain_results, crawl_pc, discovered_by_depth, current_batch, fetch,
       ok_urls, rejected, earlier_results, call,
       max_size, _data, threads, enable_cache, searches, uses >>

\* The cache and the search service, which the crawler does not use.
service == << max_size, _data, threads, enable_cache, searches, uses >>

\* What belongs to the caller of the crawler: no step of the crawler
\* changes it.
caller == << earlier_results, call, service >>

\* No call of a URL helper is under way.
NoCall == [pc |-> "none"]

config == << max_concurrent, max_depth, max_pages_per_domain >>

Min(a, b) == IF a < b THEN a ELSE b

\* The seed lists a caller passes: up to MaxSeeds seed URLs in any order,
\* the empty list included.
SeedLists == UNION { [1..n -> SeedUrls] : n \in 0..MaxSeeds }

\* One seed only.
SingleSeeds == { << u >> : u \in SeedUrls }

\* AsyncWebCrawler(max_concurrent, max_depth, max_pages_per_domain): the
\* semaphore has max_concurrent permits and the tracking structures are
\* empty.  seeds is the list crawl_multiple_domains will be called with.
NewCrawlerState(concurrencies, depths, budgets, seeds) ==
    /\ max_concurrent \in concurrencies
    /\ max_depth \in depths
    /\ max_pages_per_domain \in budgets
    /\ semaphore = max_concurrent
    /\ visited_urls = {}
    /\ domain_page_count = [d \in Domains |-> 0]
    /\ crawl_queue = [d \in Domains |-> << >>]
    /\ urls \in seeds
    /\ orch_pc = "idle"
    /\ domains_to_crawl = << >>
    /\ domain_results = << >>
    /\ crawl_pc = << >>
    /\ discovered_by_depth = << >>
    /\ current_batch = << >>
    /\ fetch = << >>
    /\ ok_urls = {}
    /\ rejected = {}
    /\ earlier_results = << >>

\* No cache and no search service are constructed.
NoService ==
    /\ max_size = 0
    /\ _data = << >>
    /\ threads = << >>
    /\ enable_cache = FALSE
    /\ searches = << >>
    /\ uses = << >>

NewCrawler(concurrencies, depths, budgets, seeds) ==
    /\ NewCrawlerState(concurrencies, depths, budgets, seeds)
    /\ call = NoCall
    /\ NoService

Init == NewCrawler(1..MaxConcurrent, ShallowDepths, ShallowBudgets, SeedLists)

InitDeep == NewCrawler(1..MaxConcurrent, 0..MaxDepth, 1..MaxPages, SingleSeeds)

InitLive == NewCrawler(1..MaxConcurrent, LiveDepths, LiveBudgets, SingleSeeds)

\* ----------------------------------------------------------- orchestrator
\* The grouping loop of crawl_multiple_domains: the first URL of each domain
\* is kept, in the order the domains first occur.
\* Mutant: a later seed of a domain replaces the one kept for it.
RECURSIVE GroupByDomainLast(_, _)
GroupByDomainLast(us, acc) ==
    IF us = << >> THEN acc
    ELSE LET url == Head(us)
             domain == get_domain(url)
         IN GroupByDomainLast(Tail(us),
                IF \E k \in 1..Len(acc) : acc[k].domain = domain
                THEN [k \in 1..Len(acc) |->
                         IF acc[k].domain = domain THEN [acc[k] EXCEPT !.url = url] ELSE acc[k]]
                ELSE Append(acc, [domain |-> domain, url |-> url]))

RECURSIVE GroupByDomain(_, _)
GroupByDomain(us, acc) ==
    IF us = << >> THEN acc
    ELSE LET url == Head(us)
             domain == get_domain(url)
         IN IF \E k \in 1..Len(acc) : acc[k].domain = domain
            THEN GroupByDomain(Tail(us), acc)
            ELSE GroupByDomain(Tail(us), Append(acc, [domain |-> domain, url |-> url]))

Crawls == 1..Len(domains_to_crawl)

\* Mutant: an empty list of seeds is refused with an error.
RejectsEmptyUrls(us) == us = << >>

\* Whether crawl_multiple_domains refuses its argument: it tests nothing
\* about urls, prints len(urls) and loops over whatever it is given.
RejectsUrls(us) == FALSE

\* crawl_multiple_domains up to its await: group the seeds, create one
\* crawl_domain coroutine per kept seed and gather them.
CrawlMultipleDomainsEnter ==
    /\ IF RejectsUrls(urls)
       THEN /\ orch_pc' = "raised"
            /\ UNCHANGED << domains_to_crawl, crawl_pc, discovered_by_depth,
                            current_batch, fetch >>
       ELSE /\ domains_to_crawl' = GroupByDomain(urls, << >>)
            /\ crawl_pc' = [i \in 1..Len(domains_to_crawl') |-> "created"]
            /\ discovered_by_depth' = [i \in 1..Len(domains_to_crawl') |-> {}]
            /\ current_batch' = [i \in 1..Len(domains_to_crawl') |-> << >>]
            /\ fetch' = [i \in 1..Len(domains_to_crawl') |-> << >>]
            /\ orch_pc' = "gathering"
    /\ rejected' = {}
    /\ UNCHANGED << config, semaphore, visited_urls, domain_page_count, crawl_queue,
                    urls, ok_urls, call, service >>

\* The call of crawl_multiple_domains on a newly constructed crawler.
CrawlMultipleDomains ==
    /\ orch_pc = "idle"
    /\ CrawlMultipleDomainsEnter
    /\ UNCHANGED << domain_results, earlier_results >>

\* The caller, holding the map an invocation returned, calls
\* crawl_multiple_domains again on the same crawler with the same seeds:
\* the method starts from the tracking structures as they are.
CrawlMultipleDomainsAgain ==
    /\ orch_pc = "returned"
    /\ Len(earlier_results) + 1 < MaxInvocations
    /\ earlier_results' = Append(earlier_results, domain_results)
    /\ domain_results' = << >>
    /\ CrawlMultipleDomainsEnter

\* ------------------------------------------------------------- fetch_page
\* One fetch_page task: its position, and the (url, content, status) it
\* returned.  A body is kept as "html" (some text) or "" (no text); the
\* anchors of a body are drawn when extract_links reads it.
NewFetch == [pc |-> "waiting", status |-> 0, content |-> ""]

SetFetch(i, k, f) == fetch' = [fetch EXCEPT ![i][k] = f]

FetchFrame ==
    /\ rejected' = {}
    /\ UNCHANGED << caller, config, visited_urls, domain_page_count, crawl_queue, urls, orch_pc,
                    domains_to_crawl, domain_results, crawl_pc, discovered_by_depth,
                    current_batch >>

\* Mutant: a task enters without waiting for a permit.
CanAcquireAlways(sem) == TRUE

\* asyncio.Semaphore: acquire goes on when a permit is free, and takes it;
\* release gives one back.
CanAcquire(sem) == sem > 0

Acquire(sem) == sem - 1

Release(sem) == sem + 1

\* "async with self.semaphore": a permit is taken when one is free, and the
\* task goes on to "await asyncio.sleep(self.delay)".
FetchAcquire(i, k) ==
    /\ fetch[i][k].pc = "waiting"
    /\ CanAcquire(semaphore)
    /\ semaphore' = Acquire(semaphore)
    /\ SetFetch(i, k, [fetch[i][k] EXCEPT !.pc = "sleeping"])
    /\ UNCHANGED ok_urls
    /\ FetchFrame

\* The delay is over: "self.session.get(url)" issues the request.
FetchRequest(i, k) ==
    /\ fetch[i][k].pc = "sleeping"
    /\ SetFetch(i, k, [fetch[i][k] EXCEPT !.pc = "requesting"])
    /\ UNCHANGED << semaphore, ok_urls >>
    /\ FetchFrame

\* Mutant: the permit is not given back when the request timed out.
ExitSemaphoreLeak(outcome) == IF outcome = 408 THEN semaphore ELSE Release(semaphore)

\* What leaving "async with self.semaphore" does to the semaphore, whatever
\* the way the block is left.
ExitSemaphore(outcome) == Release(semaphore)

\* The ways fetch_page ends.  The slot is given back on each of them.
FetchEnd(i, k, pc, status, content) ==
    /\ fetch[i][k].pc = "requesting"
    /\ semaphore' = ExitSemaphore(status)
    /\ SetFetch(i, k, [pc |-> pc, status |-> status, content |-> content])
    /\ ok_urls' = IF pc = "done" /\ status = 200 /\ content # ""
                  THEN ok_urls \cup {current_batch[i][k].url}
                  ELSE ok_urls
    /\ FetchFrame

\* response.status == 200: the body is read; it may be empty.
FetchOk(i, k) == \E content \in {"html", ""} : FetchEnd(i, k, "done", 200, content)

\* Any other status: no body.
FetchStatus(i, k) == FetchEnd(i, k, "done", 404, "")

\* asyncio.TimeoutError is caught.
FetchTimeout(i, k) == FetchEnd(i, k, "done", 408, "")

\* Any other Exception is caught.
FetchError(i, k) == FetchEnd(i, k, "done", 500, "")

\* An exception leaves fetch_page (the handlers' own console.print raises
\* on text rich cannot render): gather hands it over as the task's result.
FetchRaise(i, k) == FetchEnd(i, k, "raised", 0, "")

\* ----------------------------------------------------------- crawl_domain
Task(url, depth) == [url |-> url, depth |-> depth]

\* Mutant: the batch loop does not look at visited_urls.
SkipTaskRevisits(task, visited, count) ==
    \/ task.depth > max_depth
    \/ count >= max_pages_per_domain

\* Mutant: the batch loop does not look at the page count.
SkipTaskNoBudget(task, visited, count) ==
    \/ task.url \in visited
    \/ task.depth > max_depth

\* The test that makes the batch loop drop a task it popped.
SkipTask(task, visited, count) ==
    \/ task.url \in visited
    \/ task.depth > max_depth
    \/ count >= max_pages_per_domain

\* Mutant: the page count goes up for every task popped, dropped ones too.
RECURSIVE BatchLoopCountsPopped(_, _)
BatchLoopCountsPopped(st, n) ==
    IF n = 0 \/ st.queue = << >> THEN st
    ELSE LET task == Head(st.queue)
             rest == Tail(st.queue)
         IN IF SkipTask(task, st.visited, st.count)
            THEN BatchLoopCountsPopped([st EXCEPT !.queue = rest, !.count = @ + 1], n - 1)
            ELSE BatchLoopCountsPopped([queue |-> rest,
                                        visited |-> st.visited \cup {task.url},
                                        count |-> st.count + 1,
                                        batch |-> Append(st.batch, task)], n - 1)

\* Mutant: the batch loop pops from the right end of the queue.
RECURSIVE BatchLoopPopsRight(_, _)
BatchLoopPopsRight(st, n) ==
    IF n = 0 \/ st.queue = << >> THEN st
    ELSE LET task == st.queue[Len(st.queue)]
             rest == SubSeq(st.queue, 1, Len(st.queue) - 1)
         IN IF SkipTask(task, st.visited, st.count)
            THEN BatchLoopPopsRight([st EXCEPT !.queue = rest], n - 1)
            ELSE BatchLoopPopsRight([queue |-> rest,
                                     visited |-> st.visited \cup {task.url},
                                     count |-> st.count + 1,
                                     batch |-> Append(st.batch, task)], n - 1)

\* Mutant: an admitted task is marked visited but not counted.
RECURSIVE BatchLoopUncounted(_, _)
BatchLoopUncounted(st, n) ==
    IF n = 0 \/ st.queue = << >> THEN st
    ELSE LET task == Head(st.queue)
             rest == Tail(st.queue)
         IN IF SkipTask(task, st.visited, st.count)
            THEN BatchLoopUncounted([st EXCEPT !.queue = rest], n - 1)
            ELSE BatchLoopUncounted([queue |-> rest,
                                     visited |-> st.visited \cup {task.url},
                                     count |-> st.count,
                                     batch |-> Append(st.batch, task)], n - 1)

\* The for loop that builds current_batch: n pops, each task either dropped
\* or admitted (appended to the batch, marked visited and counted).
RECURSIVE BatchLoop(_, _)
BatchLoop(st, n) ==
    IF n = 0 \/ st.queue = << >> THEN st
    ELSE LET task == Head(st.queue)
             rest == Tail(st.queue)
         IN IF SkipTask(task, st.visited, st.count)
            THEN BatchLoop([st EXCEPT !.queue = rest], n - 1)
            ELSE BatchLoop([queue |-> rest,
                            visited |-> st.visited \cup {task.url},
                            count |-> st.count + 1,
                            batch |-> Append(st.batch, task)], n - 1)

\* The pages of the modelled web: the set of anchors of a body.
Bodies == { b \in SUBSET Hrefs : Cardinality(b) <= MaxLinks }

\* extract_links: every href, made absolute, is normalized into a set.
extract_links(body) == { normalize_url(href) : href \in body }

\* The orders in which a loop can run through a set (a Python set of
\* strings has no fixed iteration order).
Orders(S) ==
    { f \in [1..Cardinality(S) -> S] : \A a, b \in 1..Cardinality(S) : a # b => f[a] # f[b] }

\* The sets of links extract_links can return for a page.
LinkSets == { extract_links(b) : b \in Bodies }

\* Mutant: a URL is recorded one bucket too deep.
RecordDepthNext(original_depth) == original_depth + 1

\* The bucket a fetched URL is recorded under.
RecordDepth(original_depth) == original_depth

\* Mutant: a link is pushed whatever its host and its extension.
PushLinkAnyHost(link, domain) ==
    /\ link \notin visited_urls
    /\ domain_page_count[domain] < max_pages_per_domain

\* Mutant: a link is pushed whether it was visited or not.
PushLinkVisited(link, domain) ==
    /\ is_valid_url(link, domain)
    /\ domain_page_count[domain] < max_pages_per_domain

\* The guard of the push: in scope, not visited, budget not used up.
PushLink(link, domain) ==
    /\ is_valid_url(link, domain)
    /\ link \notin visited_urls
    /\ domain_page_count[domain] < max_pages_per_domain

\* "for link in new_links": the guard reads nothing the loop changes, so the
\* loop appends the links that pass it, in the order it meets them.
Pushes(new_links, domain) == Orders({ link \in new_links : PushLink(link, domain) })

\* Mutant: appendleft, the new tasks go to the front of the queue.
RECURSIVE PushAllFront(_, _, _)
PushAllFront(queue, links, original_depth) ==
    IF links = << >> THEN queue
    ELSE PushAllFront(<< Task(Head(links), original_depth + 1) >> \o queue,
                      Tail(links), original_depth)

\* The tasks appended for the links pushed from a page at original_depth.
RECURSIVE PushAll(_, _, _)
PushAll(queue, links, original_depth) ==
    IF links = << >> THEN queue
    ELSE PushAll(Append(queue, Task(Head(links), original_depth + 1)),
                 Tail(links), original_depth)

\* Mutant: a 200 answer is taken for a page whatever its body.
HasContentEmptyBody(i, k) == fetch[i][k].pc = "done" /\ fetch[i][k].status = 200

\* Mutant: every result that came back is taken for a page.
HasContentAnyStatus(i, k) == fetch[i][k].pc = "done"

\* Whether result k of the batch of crawl i is a page with a body.
HasContent(i, k) ==
    /\ fetch[i][k].pc = "done"
    /\ fetch[i][k].status = 200
    /\ fetch[i][k].content # ""

\* Whether the loop over the results reads the links of result k.
ReadsLinks(i, k) == HasContent(i, k) /\ current_batch[i][k].depth < max_depth

\* One pass of "for i, result in enumerate(results)" over result k, for a
\* page whose links are new_links, pushed in the order pushes.
ProcessResult(i, k, domain, st, new_links, pushes) ==
    IF ~HasContent(i, k) THEN st
    ELSE LET task == current_batch[i][k]
             found == st.discovered \cup { << RecordDepth(task.depth), task.url >> }
         IN IF task.depth < max_depth
            THEN [queue |-> PushAll(st.queue, pushes, task.depth),
                  discovered |-> found,
                  rejected |-> st.rejected \cup
                      { link \in new_links : ~is_valid_url(link, domain) }]
            ELSE [st EXCEPT !.discovered = found]

\* The states the loop over the results can leave, from result k on, over
\* all the bodies the fetched pages can have.
RECURSIVE ProcessResults(_, _, _, _)
ProcessResults(i, k, domain, sts) ==
    IF k > Len(current_batch[i]) THEN sts
    ELSE ProcessResults(i, k + 1, domain,
            IF ReadsLinks(i, k)
            THEN UNION { { ProcessResult(i, k, domain, st, new_links, pushes) :
                             st \in sts, pushes \in Pushes(new_links, domain) } :
                         new_links \in LinkSets }
            ELSE { ProcessResult(i, k, domain, st, {}, << >>) : st \in sts })

CrawlFrame ==
    UNCHANGED << caller, config, semaphore, urls, orch_pc, domains_to_crawl, domain_results, ok_urls >>

\* "return dict(discovered_by_depth)"
CrawlReturn(i, domain, queue, discovered) ==
    /\ crawl_queue' = [crawl_queue EXCEPT ![domain] = queue]
    /\ discovered_by_depth' = [discovered_by_depth EXCEPT ![i] = discovered]
    /\ crawl_pc' = [crawl_pc EXCEPT ![i] = "returned"]
    /\ current_batch' = [current_batch EXCEPT ![i] = << >>]
    /\ fetch' = [fetch EXCEPT ![i] = << >>]
    /\ UNCHANGED << visited_urls, domain_page_count >>

\* The while loop from its test to the next await: leave the loop, or build
\* a batch and gather one fetch_page per admitted task.
WhileLoop(i, domain, queue, discovered) ==
    IF queue # << >> /\ domain_page_count[domain] < max_pages_per_domain
    THEN LET st == BatchLoop([queue |-> queue, visited |-> visited_urls,
                              count |-> domain_page_count[domain], batch |-> << >>],
                             Min(max_concurrent, Len(queue)))
         IN IF st.batch = << >>
            THEN CrawlReturn(i, domain, st.queue, discovered)
            ELSE /\ crawl_queue' = [crawl_queue EXCEPT ![domain] = st.queue]
                 /\ visited_urls' = st.visited
                 /\ domain_page_count' = [domain_page_count EXCEPT ![domain] = st.count]
                 /\ discovered_by_depth' = [discovered_by_depth EXCEPT ![i] = discovered]
                 /\ current_batch' = [current_batch EXCEPT ![i] = st.batch]
                 /\ fetch' = [fetch EXCEPT ![i] = [k \in 1..Len(st.batch) |-> NewFetch]]
                 /\ crawl_pc' = [crawl_pc EXCEPT ![i] = "gathering"]
    ELSE CrawlReturn(i, domain, queue, discovered)

\* crawl_domain(start_url) from its first line to its first await (or its
\* return): the seed is appended to the domain's queue at depth 0.
CrawlDomainStart(i) ==
    /\ crawl_pc[i] = "created"
    /\ LET start_url == domains_to_crawl[i].url
           domain == get_domain(start_url)
       IN WhileLoop(i, domain, Append(crawl_queue[domain], Task(start_url, 0)), {})
    /\ rejected' = {}
    /\ CrawlFrame

BatchFetched(i) ==
    /\ crawl_pc[i] = "gathering"
    /\ \A k \in 1..Len(fetch[i]) : fetch[i][k].pc \in {"done", "raised"}

\* crawl_domain from the return of "await asyncio.gather(*tasks)" to the
\* next await (or its return): the results are processed in batch order.
CrawlDomainResume(i) ==
    /\ BatchFetched(i)
    /\ LET domain == get_domain(domains_to_crawl[i].url)
       IN \E st \in ProcessResults(i, 1, domain,
                        { [queue |-> crawl_queue[domain],
                           discovered |-> discovered_by_depth[i],
                           rejected |-> {}] }) :
             /\ WhileLoop(i, domain, st.queue, st.discovered)
             /\ rejected' = st.rejected
    /\ CrawlFrame

\* An error that crawl_domain does not catch ends the task where it runs:
\* gather(return_exceptions=True) hands the exception over as its result.
CrawlDomainRaise(i) ==
    /\ crawl_pc[i] = "created" \/ BatchFetched(i)
    /\ crawl_pc' = [crawl_pc EXCEPT ![i] = "raised"]
    /\ current_batch' = [current_batch EXCEPT ![i] = << >>]
    /\ fetch' = [fetch EXCEPT ![i] = << >>]
    /\ rejected' = {}
    /\ UNCHANGED << visited_urls, domain_page_count, crawl_queue, discovered_by_depth >>
    /\ CrawlFrame

\* ---------------------------------------------------- orchestrator, ctd.
\* Mutant: gather without return_exceptions, the first exception ends the
\* orchestration and nothing is returned.
RECURSIVE CollectResultsAbort(_, _)
CollectResultsAbort(i, acc) ==
    IF i > Len(domains_to_crawl) THEN acc
    ELSE IF \E j \in 1..Len(domains_to_crawl) : crawl_pc[j] = "raised" THEN << >>
    ELSE CollectResultsAbort(i + 1,
             [d \in (DOMAIN acc) \cup {domains_to_crawl[i].domain} |->
                 IF d = domains_to_crawl[i].domain THEN discovered_by_depth[i] ELSE acc[d]])

\* Mutant: a crawl that raised is stored as an empty mapping.
RECURSIVE CollectResultsEmpty(_, _)
CollectResultsEmpty(i, acc) ==
    IF i > Len(domains_to_crawl) THEN acc
    ELSE CollectResultsEmpty(i + 1,
             [d \in (DOMAIN acc) \cup {domains_to_crawl[i].domain} |->
                 IF d = domains_to_crawl[i].domain
                 THEN (IF crawl_pc[i] # "raised" THEN discovered_by_depth[i] ELSE {})
                 ELSE acc[d]])

\* "for i, result in enumerate(results)": a result that is no exception is
\* stored under the i-th key of domains_to_crawl.
RECURSIVE CollectResults(_, _)
CollectResults(i, acc) ==
    IF i > Len(domains_to_crawl) THEN acc
    ELSE IF crawl_pc[i] # "raised"
         THEN CollectResults(i + 1,
                  [d \in (DOMAIN acc) \cup {domains_to_crawl[i].domain} |->
                      IF d = domains_to_crawl[i].domain THEN discovered_by_depth[i] ELSE acc[d]])
         ELSE CollectResults(i + 1, acc)

\* crawl_multiple_domains after "await asyncio.gather(*crawl_tasks,
\* return_exceptions=True)": every crawl has ended; the map is returned.
CrawlMultipleDomainsReturn ==
    /\ orch_pc = "gathering"
    /\ \A i \in Crawls : crawl_pc[i] \in {"returned", "raised"}
    /\ domain_results' = CollectResults(1, << >>)
    /\ orch_pc' = "returned"
    /\ rejected' = {}
    /\ UNCHANGED << config, semaphore, visited_urls, domain_page_count, crawl_queue, urls,
                    domains_to_crawl, crawl_pc, discovered_by_depth, current_batch, fetch,
                    ok_urls, caller >>

\* The fetches that hold a permit: past "async with", not yet out of it.
InFlight ==
    { ik \in UNION { { << i, k >> : k \in 1..Len(fetch[i]) } : i \in Crawls } :
        fetch[ik[1]][ik[2]].pc \in {"sleeping", "requesting"} }

\* Mutant: on cancellation the results of the crawls that have returned
\* are collected and handed to the caller.
ResultsOnCancelCollected(results) ==
    [d \in { domains_to_crawl[i].domain : i \in { j \in Crawls : crawl_pc[j] = "returned" } } |->
        discovered_by_depth[CHOOSE i \in Crawls : domains_to_crawl[i].domain = d]]

\* What becomes of domain_results when CancelledError is raised at the
\* await of crawl_multiple_domains: nothing catches it there, the lines that
\* build and return the map are not reached.
ResultsOnCancel(results) == results

\* The task that runs crawl_multiple_domains is cancelled while it awaits
\* its crawls (task.cancel(), the timeout of asyncio.wait_for, or asyncio.run
\* on Ctrl-C).  gather cancels the crawls that have not ended, their gathers
\* cancel their fetches, each fetch inside "async with self.semaphore" gives
\* its permit back, and CancelledError, which no handler of the crawler
\* catches, leaves crawl_multiple_domains.
CancelOrchestration ==
    /\ orch_pc = "gathering"
    /\ orch_pc' = "cancelled"
    /\ crawl_pc' = [i \in Crawls |->
                       IF crawl_pc[i] \in {"returned", "raised"} THEN crawl_pc[i]
                       ELSE "cancelled"]
    /\ current_batch' = [i \in Crawls |-> << >>]
    /\ fetch' = [i \in Crawls |-> << >>]
    /\ semaphore' = semaphore + Cardinality(InFlight)
    /\ domain_results' = ResultsOnCancel(domain_results)
    /\ rejected' = {}
    /\ UNCHANGED << config, visited_urls, domain_page_count, crawl_queue, urls,
                    domains_to_crawl, discovered_by_depth, ok_urls, caller >>

\* ---------------------------------------------------------- specification
Next ==
    \/ CrawlMultipleDomains
    \/ \E i \in Crawls : CrawlDomainStart(i)
    \/ \E i \in Crawls : \E k \in 1..Len(fetch[i]) : FetchAcquire(i, k)
    \/ \E i \in Crawls : \E k \in 1..Len(fetch[i]) : FetchRequest(i, k)
    \/ \E i \in Crawls : \E k \in 1..Len(fetch[i]) : FetchOk(i, k)
    \/ \E i \in Crawls : \E k \in 1..Len(fetch[i]) : FetchStatus(i, k)
    \/ \E i \in Crawls : \E k \in 1..Len(fetch[i]) : FetchTimeout(i, k)
    \/ \E i \in Crawls : \E k \in 1..Len(fetch[i]) : FetchError(i, k)
    \/ \E i \in Crawls : \E k \in 1..Len(fetch[i]) : FetchRaise(i, k)
    \/ \E i \in Crawls : CrawlDomainResume(i)
    \/ \E i \in Crawls : CrawlDomainRaise(i)
    \/ CrawlMultipleDomainsReturn

\* The orchestration of up to MaxSeeds seeds by a crawler with a shallow
\* depth and a small budget.
Spec == Init /\ [][Next]_vars

\* The crawl of one seed by a crawler with up to MaxDepth and MaxPages.
SpecDeep == InitDeep /\ [][Next]_vars

\* The crawl of one seed on an event loop that runs every coroutine that is
\* ready and on a network where every request is answered or fails in the
\* end: some step is taken as long as one can be.
SpecLive == InitLive /\ [][Next]_vars /\ WF_vars(Next)

\* The same orchestration called up to MaxInvocations times on one crawler.
NextReuse ==
    \/ Next
    \/ CrawlMultipleDomainsAgain

SpecReuse == Init /\ [][NextReuse]_vars

\* The orchestration of Spec, which its caller may cancel.
NextCancel ==
    \/ Next
    \/ CancelOrchestration

SpecCancel == Init /\ [][NextCancel]_vars

\* ------------------------------------------------------ URL helper calls
\* The URL helpers read and write nothing of the crawler: a call is its
\* arguments and the values returned so far.
CallInputs ==
    [ pc : {"start"}, url : UrlInputs, base_domain : BaseDomains, ret : {<< >>} ]

CallFrame ==
    UNCHANGED << config, semaphore, visited_urls, domain_page_count, crawl_queue, urls,
                 orch_pc, domains_to_crawl, domain_results, crawl_pc, discovered_by_depth,
                 current_batch, fetch, ok_urls, rejected, earlier_results, service >>

\* self.is_valid_url(url, base_domain)
IsValidUrlCall ==
    /\ call.pc = "start"
    /\ call' = [call EXCEPT !.pc = "is_valid_url",
                            !.ret = << is_valid_url(call.url, call.base_domain) >>]
    /\ CallFrame

\* self.normalize_url(url), of a URL urlparse can split.
NormalizeUrlCall ==
    /\ call.pc = "start"
    /\ ~urlparse_raises(call.url)
    /\ call' = [call EXCEPT !.pc = "normalize_url", !.ret = << normalize_url(call.url) >>]
    /\ CallFrame

\* self.normalize_url(...) of what normalize_url returned.
NormalizeUrlAgain ==
    /\ call.pc = "normalize_url"
    /\ call' = [call EXCEPT !.pc = "normalize_url again",
                            !.ret = Append(@, normalize_url(call.ret[1]))]
    /\ CallFrame

\* A crawler on which nothing runs, and one call of a URL helper.
InitUrl ==
    /\ NewCrawlerState({1}, {0}, {1}, {<< >>})
    /\ call \in CallInputs
    /\ NoService

NextUrl ==
    \/ IsValidUrlCall
    \/ NormalizeUrlCall
    \/ NormalizeUrlAgain

SpecUrl == InitUrl /\ [][NextUrl]_vars

\* --------------------------------------------------------------- LRUCache
\* The queries the cache and the service are called with, and
\* query.lower().strip() of each.
Queries == {"q", " Q ", "r", "s", "t"}

lower_strip(query) == IF query = " Q " THEN "q" ELSE query

\* Mutant: the digest is taken of the query as it is given.
_hash_exact(query) == query

\* _hash: the md5 digest of the lowered, stripped query.  The digest is
\* kept as the string it is taken of: no two of the queries collide.
_hash(query) == lower_strip(query)

Hashes == { _hash(query) : query \in Queries }

\* The values stored: the JSON objects the search API answers with.
Results == {"d1", "d2"}

\* The exceptions the cache and the search client raise by name.  The
\* classes are imported from src.core.exceptions; they are taken to be
\* exception classes that are raised as the code names them.
CacheMissException == "CacheMissException"

APIRequestException == "APIRequestException"

\* The keys of an OrderedDict and the place of a key in it.
Keys(data) == { data[k].key : k \in 1..Len(data) }

IndexOf(data, h) == CHOOSE k \in 1..Len(data) : data[k].key = h

ValueOf(data, h) == data[IndexOf(data, h)].value

\* OrderedDict.pop(h) of a key that is there: what is left.
Pop(data, h) ==
    SubSeq(data, 1, IndexOf(data, h) - 1) \o SubSeq(data, IndexOf(data, h) + 1, Len(data))

\* OrderedDict.__setitem__: a key that is there keeps its place and gets
\* the value, a new key goes to the end.
SetItem(data, h, value) ==
    IF h \in Keys(data)
    THEN [data EXCEPT ![IndexOf(data, h)].value = value]
    ELSE Append(data, [key |-> h, value |-> value])

\* Mutant: popitem() takes the entry at the end.
PopItemLast(data) == SubSeq(data, 1, Len(data) - 1)

\* OrderedDict.popitem(last=False) of a dict that is not empty.
PopItemFirst(data) == Tail(data)

\* Mutant: a get of a key that is not stored returns None.
get_or_none(data, query) ==
    LET h == _hash(query)
    IN IF h \in Keys(data)
       THEN [raised |-> "", value |-> ValueOf(data, h),
             data |-> SetItem(Pop(data, h), h, ValueOf(data, h))]
       ELSE [raised |-> "", value |-> "None", data |-> data]

\* LRUCache.get: pop the entry and put it back, or raise CacheMissException.
get(data, query) ==
    LET h == _hash(query)
    IN IF h \in Keys(data)
       THEN [raised |-> "", value |-> ValueOf(data, h),
             data |-> SetItem(Pop(data, h), h, ValueOf(data, h))]
       ELSE [raised |-> CacheMissException, value |-> "", data |-> data]

\* LRUCache.put: pop the key if it is there, else evict the first entry of
\* a full dict (popitem raises KeyError on an empty one), then assign.
put(data, query, value) ==
    LET h == _hash(query)
    IN IF h \in Keys(data)
       THEN [raised |-> "", data |-> SetItem(Pop(data, h), h, value)]
       ELSE IF Len(data) >= max_size
       THEN IF data = << >>
            THEN [raised |-> "KeyError", data |-> data]
            ELSE [raised |-> "", data |-> SetItem(PopItemFirst(data), h, value)]
       ELSE [raised |-> "", data |-> SetItem(data, h, value)]

\* History: a call was made; key h was used by it, value was put for it,
\* the keys in evicted left the cache.
NoUses ==
    [clock |-> 0, last_use |-> [h \in Hashes |-> 0],
     last_put |-> [h \in Hashes |-> "none"], stored |-> {}]

Tick == [uses EXCEPT !.clock = @ + 1]

Used(u, h) == [u EXCEPT !.last_use[h] = u.clock]

Stored(u, h, value, evicted) ==
    [u EXCEPT !.last_put[h] = value, !.stored = (@ \ evicted) \cup {h}]

AfterGet(query, r) == IF r.raised = "" THEN Used(Tick, _hash(query)) ELSE Tick

AfterPut(query, value, r) ==
    IF r.raised = ""
    THEN Stored(Used(Tick, _hash(query)), _hash(query), value, Keys(_data) \ Keys(r.data))
    ELSE Tick

\* A thread that is in no call, and the frame of a call of the cache.
Idle == [pc |-> "idle"]

CacheFrame ==
    UNCHANGED << config, semaphore, visited_urls, domain_page_count, crawl_queue, urls,
                 orch_pc, domains_to_crawl, domain_results, crawl_pc, discovered_by_depth,
                 current_batch, fetch, ok_urls, rejected, earlier_results, call,
                 max_size, enable_cache >>

\* cache.get(query) by a caller no other call runs beside.
CacheGet(t, query) ==
    /\ uses.clock < MaxCacheOps
    /\ LET r == get(_data, query)
       IN /\ _data' = r.data
          /\ threads' = [threads EXCEPT ![t] =
                [pc |-> IF r.raised = "" THEN "returned" ELSE "raised", op |-> "get",
                 query |-> query, value |-> r.value, raised |-> r.raised,
                 at |-> uses.clock + 1]]
          /\ uses' = AfterGet(query, r)
    /\ UNCHANGED searches
    /\ CacheFrame

\* cache.put(query, value) by a caller no other call runs beside.
CachePut(t, query, value) ==
    /\ uses.clock < MaxCacheOps
    /\ LET r == put(_data, query, value)
       IN /\ _data' = r.data
          /\ threads' = [threads EXCEPT ![t] =
                [pc |-> IF r.raised = "" THEN "returned" ELSE "raised", op |-> "put",
                 query |-> query, value |-> value, raised |-> r.raised,
                 at |-> uses.clock + 1]]
          /\ uses' = AfterPut(query, value, r)
    /\ UNCHANGED searches
    /\ CacheFrame

\* LRUCache(max_size), no entry stored, used by the callers in callers; the
\* crawler is not running.
NewCache(sizes, callers) ==
    /\ NewCrawlerState({1}, {0}, {1}, {<< >>})
    /\ call = NoCall
    /\ max_size \in sizes
    /\ _data = << >>
    /\ threads = [t \in callers |-> Idle]
    /\ uses = NoUses
    /\ enable_cache = TRUE
    /\ searches = << >>

InitCache == NewCache(0..MaxCacheSize, {1})

NextCache ==
    \E query \in Queries :
        \/ CacheGet(1, query)
        \/ \E value \in Results : CachePut(1, query, value)

\* A cache called by one caller, one call after the other.
SpecCache == InitCache /\ [][NextCache]_vars

\* ------------------------------------------------------ LRUCache, threads
\* The cache called from several threads.  The interpreter switches threads
\* between two bytecodes, and each call on the OrderedDict (pop, assignment,
\* "in", len, popitem) runs without a switch: a thread step is the code up
\* to and including one such call.  A thread in a call is at the line it
\* will run next.
InCall(t) == threads[t].pc \in {"get:25", "put:33", "put:34", "put:35", "put:36"}

ThreadFrame == UNCHANGED searches /\ CacheFrame

\* get, lines 22-24: pop the key, or raise CacheMissException.
ThreadGetPop(t, query) ==
    /\ ~InCall(t)
    /\ uses.clock < MaxCacheOps
    /\ LET h == _hash(query)
           call_ == [op |-> "get", query |-> query, at |-> uses.clock + 1,
                     stored |-> h \in uses.stored]
       IN IF h \in Keys(_data)
          THEN /\ _data' = Pop(_data, h)
               /\ threads' = [threads EXCEPT ![t] =
                     call_ @@ [pc |-> "get:25", value |-> ValueOf(_data, h), raised |-> ""]]
          ELSE /\ _data' = _data
               /\ threads' = [threads EXCEPT ![t] =
                     call_ @@ [pc |-> "raised", value |-> "", raised |-> CacheMissException]]
    /\ uses' = Tick
    /\ ThreadFrame

\* get, lines 25-26: assign the popped value and return it.
ThreadGetAssign(t) ==
    /\ threads[t].pc = "get:25"
    /\ _data' = SetItem(_data, _hash(threads[t].query), threads[t].value)
    /\ threads' = [threads EXCEPT ![t].pc = "returned"]
    /\ uses' = Used(uses, _hash(threads[t].query))
    /\ ThreadFrame

\* put, lines 31-32: the test "h in self._data".
ThreadPutTest(t, query, value) ==
    /\ ~InCall(t)
    /\ uses.clock < MaxCacheOps
    /\ threads' = [threads EXCEPT ![t] =
          [pc |-> IF _hash(query) \in Keys(_data) THEN "put:33" ELSE "put:34",
           op |-> "put", query |-> query, value |-> value, raised |-> "",
           at |-> uses.clock + 1, stored |-> _hash(query) \in uses.stored]]
    /\ uses' = Tick
    /\ UNCHANGED _data
    /\ ThreadFrame

\* put, line 33: pop the key; pop raises KeyError if the key is gone.
ThreadPutPop(t) ==
    /\ threads[t].pc = "put:33"
    /\ IF _hash(threads[t].query) \in Keys(_data)
       THEN /\ _data' = Pop(_data, _hash(threads[t].query))
            /\ threads' = [threads EXCEPT ![t].pc = "put:36"]
       ELSE /\ _data' = _data
            /\ threads' = [threads EXCEPT ![t].pc = "raised", ![t].raised = "KeyError"]
    /\ UNCHANGED uses
    /\ ThreadFrame

\* put, line 34: the test "len(self._data) >= self.max_size".
ThreadPutLen(t) ==
    /\ threads[t].pc = "put:34"
    /\ threads' = [threads EXCEPT ![t].pc = IF Len(_data) >= max_size THEN "put:35" ELSE "put:36"]
    /\ UNCHANGED << _data, uses >>
    /\ ThreadFrame

\* put, line 35: popitem(last=False); it raises KeyError on an empty dict.
ThreadPutPopitem(t) ==
    /\ threads[t].pc = "put:35"
    /\ IF _data # << >>
       THEN /\ _data' = PopItemFirst(_data)
            /\ threads' = [threads EXCEPT ![t].pc = "put:36"]
            /\ uses' = [uses EXCEPT !.stored = @ \ (Keys(_data) \ Keys(_data'))]
       ELSE /\ _data' = _data
            /\ threads' = [threads EXCEPT ![t].pc = "raised", ![t].raised = "KeyError"]
            /\ uses' = uses
    /\ ThreadFrame

\* put, line 36: assign the value.
ThreadPutAssign(t) ==
    /\ threads[t].pc = "put:36"
    /\ _data' = SetItem(_data, _hash(threads[t].query), threads[t].value)
    /\ threads' = [threads EXCEPT ![t].pc = "returned"]
    /\ uses' = Stored(Used(uses, _hash(threads[t].query)), _hash(threads[t].query),
                      threads[t].value, {})
    /\ ThreadFrame

InitThreads == NewCache(1..MaxCacheSize, 1..MaxThreads)

\* The queries the threads call the cache with: two keys, one of them
\* written in two ways.
ThreadQueries == {"q", " Q ", "r"}

NextThreads ==
    \E t \in DOMAIN threads :
        \/ \E query \in ThreadQueries : ThreadGetPop(t, query)
        \/ ThreadGetAssign(t)
        \/ \E query \in ThreadQueries : \E value \in Results : ThreadPutTest(t, query, value)
        \/ ThreadPutPop(t)
        \/ ThreadPutLen(t)
        \/ ThreadPutPopitem(t)
        \/ ThreadPutAssign(t)

\* One cache called by MaxThreads threads at once.
SpecThreads == InitThreads /\ [][NextThreads]_vars

\* ---------------------------------------------------- GoogleSearchService
\* The num_results a search is called with (the client asks the API for
\* min(num_results, 10)), and what the API answers with: one of Results,
\* or a JSON object without entries, which is falsy.
NumResults == {1, 11}

EmptyResult == "{}"

\* "if self._cache and data": whether the service stores what the client
\* returned.
Stores(data) == enable_cache /\ data # EmptyResult

\* "if self._cache: try: return self._cache.get(query)": without a cache the
\* service goes on as after a miss.
ReadsCache(data, query) ==
    IF enable_cache THEN get(data, query)
    ELSE [raised |-> CacheMissException, value |-> "", data |-> data]

InSearch(s) == searches[s].pc = "fetching"

SearchFrame == UNCHANGED threads /\ CacheFrame

\* search(query, num_results) up to its await: return what the cache holds
\* for the query, or call self._client.fetch(query, num_results).
Search(s, query, num_results) ==
    /\ ~InSearch(s)
    /\ uses.clock < MaxCacheOps
    /\ LET r == ReadsCache(_data, query)
           search_ == [query |-> query, num_results |-> num_results, at |-> uses.clock + 1]
       IN /\ _data' = r.data
          /\ uses' = AfterGet(query, r)
          /\ searches' = [searches EXCEPT ![s] =
                IF r.raised = ""
                THEN search_ @@ [pc |-> "returned", result |-> r.value, raised |-> "",
                                 fetched |-> << >>]
                ELSE search_ @@ [pc |-> "fetching", result |-> "", raised |-> "",
                                 fetched |-> << << query, Min(num_results, 10) >> >>]]
    /\ SearchFrame

\* The client returns data: store it if it is not empty, and return it.
ClientReturns(s, data) ==
    /\ InSearch(s)
    /\ LET r == IF Stores(data) THEN put(_data, searches[s].query, data)
                ELSE [raised |-> "", data |-> _data]
       IN /\ _data' = r.data
          /\ uses' = IF Stores(data) THEN AfterPut(searches[s].query, data, r) ELSE uses
          /\ searches' = [searches EXCEPT ![s].pc = IF r.raised = "" THEN "returned" ELSE "raised",
                                          ![s].result = IF r.raised = "" THEN data ELSE "",
                                          ![s].raised = r.raised]
    /\ SearchFrame

\* The client raises APIRequestException (the request failed, the status
\* was an error, the body was no JSON object): search lets it through.
ClientRaises(s) ==
    /\ InSearch(s)
    /\ searches' = [searches EXCEPT ![s].pc = "raised", ![s].raised = APIRequestException]
    /\ UNCHANGED << _data, uses >>
    /\ SearchFrame

\* The coroutines that call search on one event loop.
Searchers == {1, 2}

\* GoogleSearchService(): a client, and a cache of settings.max_cache_size >= 1
\* entries if settings.enable_cache is set; two coroutines call search.
InitSearch ==
    /\ NewCrawlerState({1}, {0}, {1}, {<< >>})
    /\ call = NoCall
    /\ enable_cache \in BOOLEAN
    /\ max_size \in 1..MaxCacheSize
    /\ _data = << >>
    /\ threads = << >>
    /\ uses = NoUses
    /\ searches = [s \in Searchers |-> Idle]

\* The queries the searches are made with: two keys, one of them written
\* in two ways.
SearchQueries == {"q", " Q ", "r"}

NextSearch ==
    \E s \in DOMAIN searches :
        \/ \E query \in SearchQueries : \E num_results \in NumResults :
              Search(s, query, num_results)
        \/ \E data \in Results \cup {EmptyResult} : ClientReturns(s, data)
        \/ ClientRaises(s)

\* Searches of one service, on one event loop.
SpecSearch == InitSearch /\ [][NextSearch]_vars

\* ============================================================== properties
\* The domain crawl task i works on, and the tasks waiting in its queue.
DomainOf(i) == get_domain(domains_to_crawl[i].url)

Pending(i) == { crawl_queue[DomainOf(i)][q] : q \in 1..Len(crawl_queue[DomainOf(i)]) }

Batch(i) == { current_batch[i][k] : k \in 1..Len(current_batch[i]) }

\* The URLs of a depth -> URLs mapping, kept as a set of << depth, url >>.
UrlCount(discovered) == Cardinality(discovered)

\* The first seed of the input whose domain is d.
FirstSeed(d) ==
    urls[CHOOSE j \in 1..Len(urls) :
            /\ get_domain(urls[j]) = d
            /\ \A h \in 1..(j - 1) : get_domain(urls[h]) # d]

\* Whether sequence s is the end of sequence t.
IsSuffix(s, t) == Len(s) <= Len(t) /\ s = SubSeq(t, Len(t) - Len(s) + 1, Len(t))

\* The step at hand is crawl i going on from its gather, all the results of
\* its batch being in (a crawl that raises there leaves its batch too, but
\* ends as "raised").
Resumes(i) ==
    /\ BatchFetched(i)
    /\ current_batch'[i] # current_batch[i]
    /\ crawl_pc'[i] # "raised"

\* Fetch k of the batch of crawl i failed: it timed out (408), met a
\* transport error (500), was answered with another status than 200, or
\* its exception was handed over by gather.
Failed(i, k) == fetch[i][k].pc = "raised" \/ fetch[i][k].status # 200

\* A task the batch loop would admit in the present state.
Admissible(task, domain) ==
    /\ task.url \notin visited_urls
    /\ task.depth <= max_depth
    /\ domain_page_count[domain] < max_pages_per_domain

\* ---- C1
\* C1: page budget.  In every state the page count of every domain is at
\* most max_pages_per_domain, and so is the number of URLs, over all depth
\* buckets, of what a domain crawl has recorded and of every returned entry.
C1_PageBudget ==
    /\ \A d \in Domains : domain_page_count[d] <= max_pages_per_domain
    /\ \A i \in Crawls : UrlCount(discovered_by_depth[i]) <= max_pages_per_domain
    /\ \A d \in DOMAIN domain_results : UrlCount(domain_results[d]) <= max_pages_per_domain

\* Witness of C1: a returned entry that uses the whole budget of two or
\* more pages, while tasks the budget shut out are still queued.
C1_Witness ==
    /\ orch_pc = "returned"
    /\ max_pages_per_domain >= 2
    /\ \E d \in DOMAIN domain_results :
          /\ UrlCount(domain_results[d]) = max_pages_per_domain
          /\ \E q \in 1..Len(crawl_queue[d]) : crawl_queue[d][q].url \notin visited_urls

\* ---- C2
\* C2: depth bound.  No URL is recorded under a depth above max_depth, in a
\* crawl's result or in a returned entry, and no task of a fetch batch has a
\* depth above max_depth.
C2_DepthBound ==
    /\ \A i \in Crawls : \A e \in discovered_by_depth[i] : e[1] <= max_depth
    /\ \A d \in DOMAIN domain_results : \A e \in domain_results[d] : e[1] <= max_depth
    /\ \A i \in Crawls : \A t \in Batch(i) : t.depth <= max_depth

\* Witness of C2: a page at the deepest allowed depth (one or more) has been
\* fetched and recorded, and the crawl has returned.
C2_Witness ==
    /\ orch_pc = "returned"
    /\ max_depth >= 1
    /\ \E d \in DOMAIN domain_results : \E e \in domain_results[d] : e[1] = max_depth

\* ---- C3
\* C3: no duplicate visitation.  Two URLs recorded by one domain crawl that
\* normalize to the same URL are never in two different depth buckets.
C3_NoDuplicateVisitation ==
    \A i \in Crawls : \A e, f \in discovered_by_depth[i] :
        normalize_url(e[2]) = normalize_url(f[2]) => e[1] = f[1]

\* ---- C4
\* C4: scope containment.  Every URL a crawl records has the crawl's domain
\* as its host, and every task made from a link (depth one or more), be it
\* queued, in a fetch batch or recorded, passes is_valid_url for the domain:
\* same host, no blocked extension.
C4_ScopeContainment ==
    \A i \in Crawls :
        /\ \A e \in discovered_by_depth[i] :
              /\ get_domain(e[2]) = DomainOf(i)
              /\ e[1] >= 1 => is_valid_url(e[2], DomainOf(i))
        /\ \A t \in Pending(i) \cup Batch(i) :
              /\ get_domain(t.url) = DomainOf(i)
              /\ t.depth >= 1 => is_valid_url(t.url, DomainOf(i))

\* Witness of C4: the page just processed carried a link to another host and
\* a link with a blocked extension, and the crawl is fetching a link of it.
C4_Witness ==
    \E i \in Crawls :
        /\ crawl_pc[i] = "gathering"
        /\ \E t \in Batch(i) : t.depth >= 1
        /\ \E link \in rejected : get_domain(link) # DomainOf(i)
        /\ \E link \in rejected :
              get_domain(link) = DomainOf(i) /\ Lower(link.ext) \in skip_extensions

\* ---- C5
\* C5: fault isolation.  When the orchestration has returned and some crawl
\* A raised or came back empty, every other crawl B that did not raise has
\* run to its return, its entry in the returned map is what it recorded, and
\* that entry holds B's seed when the seed was answered with a page.
C5_FaultIsolation ==
    orch_pc = "returned" =>
        \A a, b \in Crawls :
            (a # b /\ (crawl_pc[a] = "raised" \/ discovered_by_depth[a] = {})
                   /\ crawl_pc[b] # "raised") =>
                /\ crawl_pc[b] = "returned"
                /\ DomainOf(b) \in DOMAIN domain_results
                /\ domain_results[DomainOf(b)] = discovered_by_depth[b]
                /\ domains_to_crawl[b].url \in ok_urls =>
                      << 0, domains_to_crawl[b].url >> \in domain_results[DomainOf(b)]

\* Witness of C5: one crawl raised, another was answered and its entry is
\* returned with its seed in it.
C5_Witness ==
    /\ orch_pc = "returned"
    /\ \E a, b \in Crawls :
          /\ crawl_pc[a] = "raised"
          /\ crawl_pc[b] = "returned"
          /\ << 0, domains_to_crawl[b].url >> \in domain_results[DomainOf(b)]

\* ---- C6
\* C6 as claimed: a crawl that raised is in the returned map, as an empty
\* depth mapping.
C6_FailedCrawlIsEmptyEntry ==
    orch_pc = "returned" =>
        \A i \in Crawls :
            crawl_pc[i] = "raised" =>
                /\ DomainOf(i) \in DOMAIN domain_results
                /\ domain_results[DomainOf(i)] = {}

\* C6 as amended: a crawl that raised is left out of the returned map: the
\* keys of the map are the domains of the crawls that returned.
C6_FailedCrawlIsLeftOut ==
    orch_pc = "returned" =>
        /\ \A i \in Crawls : crawl_pc[i] = "raised" => DomainOf(i) \notin DOMAIN domain_results
        /\ DOMAIN domain_results = { DomainOf(i) : i \in { j \in Crawls : crawl_pc[j] = "returned" } }

\* Witness of C6: the orchestration returned, one crawl raised and another
\* returned.
C6_Witness ==
    /\ orch_pc = "returned"
    /\ \E i, j \in Crawls : crawl_pc[i] = "raised" /\ crawl_pc[j] = "returned"
    /\ domain_results # << >>

\* ---- C7
\* C7 as claimed: strict depth order.  The tasks of a fetch batch all have
\* one depth, and no task of a lesser depth than a task being fetched is
\* still to be fetched or processed.
C7_StrictDepthOrder ==
    \A i \in Crawls :
        /\ \A t, u \in Batch(i) : t.depth = u.depth
        /\ \A t \in Batch(i) : \A u \in Pending(i) : u.depth >= t.depth

\* C7 as amended: in the orchestration of a newly constructed crawler, a
\* task is fetched only when no task of a lesser depth is left in pending;
\* the depths of a batch do not decrease along the batch and span at most
\* two adjacent depths, and a batch of a crawler with max_concurrent = 1 has
\* one depth.
C7_DepthOrder ==
    \A i \in Crawls :
        /\ \A t \in Batch(i) : \A u \in Pending(i) : u.depth >= t.depth
        /\ \A k, l \in 1..Len(current_batch[i]) :
              k <= l => /\ current_batch[i][k].depth <= current_batch[i][l].depth
                        /\ current_batch[i][l].depth <= current_batch[i][k].depth + 1
        /\ max_concurrent = 1 => \A t, u \in Batch(i) : t.depth = u.depth

\* Witness of C7: a batch that holds a task of depth 1 and a task of depth 2.
C7_Witness ==
    \E i \in Crawls :
        /\ crawl_pc[i] = "gathering"
        /\ \E t, u \in Batch(i) : t.depth = 1 /\ u.depth = 2

\* ---- C8
\* C8: concurrency limit.  Over all the domains crawled at once, at most
\* max_concurrent fetches hold a slot.
C8_ConcurrencyLimit == Cardinality(InFlight) <= max_concurrent

\* Witness of C8: every slot is taken, and a fetch of another domain than
\* the one that holds a slot waits for one.
C8_Witness ==
    /\ Cardinality(InFlight) = max_concurrent
    /\ \E ik \in InFlight : \E j \in Crawls \ {ik[1]} :
          \E l \in 1..Len(fetch[j]) : fetch[j][l].pc = "waiting"

\* ---- C9
\* The steps a fetch takes, and what each does to the semaphore.
FetchStepsInOrder ==
    \A i \in (DOMAIN fetch) \cap (DOMAIN fetch') :
        \A k \in (DOMAIN fetch[i]) \cap (DOMAIN fetch'[i]) :
            fetch[i][k].pc # fetch'[i][k].pc =>
                \/ /\ fetch[i][k].pc = "waiting"
                   /\ fetch'[i][k].pc = "sleeping"
                   /\ semaphore' = semaphore - 1
                \/ /\ fetch[i][k].pc = "sleeping"
                   /\ fetch'[i][k].pc = "requesting"
                   /\ semaphore' = semaphore
                \/ /\ fetch[i][k].pc = "requesting"
                   /\ fetch'[i][k].pc \in {"done", "raised"}
                   /\ semaphore' = semaphore + 1
                \/ /\ fetch[i][k].pc \in {"done", "raised"}
                   /\ fetch'[i][k].pc = "waiting"
                   /\ semaphore' = semaphore

\* C9: politeness delay ordering.  Every fetch goes acquire, delay, request,
\* release in this order; the free permits are always max_concurrent less
\* the fetches that are in their delay or their request, so the slot is held
\* through both and given back on every outcome.
C9_PolitenessOrder ==
    /\ [](semaphore = max_concurrent - Cardinality(InFlight))
    /\ [][FetchStepsInOrder]_vars

\* Witness of C9: a fetch that timed out has given its slot back.
C9_Witness ==
    /\ semaphore = max_concurrent
    /\ \E i \in Crawls : \E k \in 1..Len(fetch[i]) :
          fetch[i][k].pc = "done" /\ fetch[i][k].status = 408

\* ---- C10
\* C10: one crawl per domain, seeded with the domain's first seed.  Once the
\* crawls are launched there is exactly one per lower-cased host of the
\* seeds, its seed is the first input URL of that host, every task or record
\* of depth 0 is that seed, and every returned entry is what the crawl of
\* its key recorded.
C10_OneCrawlPerDomain ==
    orch_pc # "idle" =>
        /\ { domains_to_crawl[i].domain : i \in Crawls } =
              { get_domain(urls[j]) : j \in 1..Len(urls) }
        /\ \A i, j \in Crawls : domains_to_crawl[i].domain = domains_to_crawl[j].domain => i = j
        /\ \A i \in Crawls :
              /\ domains_to_crawl[i].url = FirstSeed(domains_to_crawl[i].domain)
              /\ \A t \in Pending(i) \cup Batch(i) :
                    t.depth = 0 => t.url = FirstSeed(DomainOf(i))
              /\ \A e \in discovered_by_depth[i] : e[1] = 0 => e[2] = FirstSeed(DomainOf(i))
        /\ \A d \in DOMAIN domain_results :
              \E i \in Crawls : DomainOf(i) = d /\ domain_results[d] = discovered_by_depth[i]

\* Witness of C10: two different seeds of one domain were given, and the
\* first is what the returned entry of the domain holds at depth 0.
C10_Witness ==
    /\ orch_pc = "returned"
    /\ Len(urls) = 2
    /\ urls[1] # urls[2]
    /\ get_domain(urls[1]) = get_domain(urls[2])
    /\ get_domain(urls[1]) \in DOMAIN domain_results
    /\ << 0, urls[1] >> \in domain_results[get_domain(urls[1])]

\* ---- C11
\* C11 as claimed: an orchestration given an empty list of seeds is refused
\* with an error before any crawl is launched: it neither gets to await its
\* crawls nor returns a map.
C11_EmptySeedsRejected == urls = << >> => orch_pc \in {"idle", "raised"}

\* C11 as amended: an orchestration given an empty list of seeds is not
\* refused; it launches no crawl, fetches nothing, leaves the crawler's
\* tracking state as it was and returns the empty map.
C11_EmptySeedsReturnEmpty ==
    urls = << >> =>
        /\ orch_pc \in {"idle", "gathering", "returned"}
        /\ Crawls = {}
        /\ domain_results = << >>
        /\ visited_urls = {}
        /\ semaphore = max_concurrent
        /\ \A d \in Domains : domain_page_count[d] = 0 /\ crawl_queue[d] = << >>

\* Witness of C11: the orchestration of an empty list has returned.
C11_Witness == urls = << >> /\ orch_pc = "returned" /\ domain_results = << >>

\* ---- C12
\* What the step of a crawl that goes on from its gather does with the
\* fetches that failed.
FailedFetchesAddNothing ==
    \A i \in Crawls :
        Resumes(i) =>
            LET batch == 1..Len(current_batch[i])
                queue == crawl_queue[DomainOf(i)]
            IN /\ crawl_pc'[i] \in {"gathering", "returned"}
               /\ \A k \in batch :
                     Failed(i, k) =>
                         \A e \in discovered_by_depth'[i] : e[2] # current_batch[i][k].url
               /\ \A k \in batch :
                     (fetch[i][k].pc = "done" /\ fetch[i][k].status = 200
                         /\ fetch[i][k].content # "") =>
                         << current_batch[i][k].depth, current_batch[i][k].url >>
                             \in discovered_by_depth'[i]
               /\ (\A k \in batch : Failed(i, k)) =>
                     /\ discovered_by_depth'[i] = discovered_by_depth[i]
                     /\ IsSuffix(crawl_queue'[DomainOf(i)], queue)
               /\ ((\E k \in batch : Failed(i, k)) /\ queue # << >>
                         /\ Admissible(Head(queue), DomainOf(i))) =>
                     /\ crawl_pc'[i] = "gathering"
                     /\ current_batch'[i][1] = Head(queue)
               /\ (current_batch[i] = << Task(domains_to_crawl[i].url, 0) >> /\ Failed(i, 1)) =>
                     /\ crawl_pc'[i] = "returned"
                     /\ discovered_by_depth'[i] = {}

\* What the orchestration returns for the crawls that returned.
ReturnedCrawlsAreReturned ==
    orch_pc = "returned" =>
        \A i \in Crawls :
            crawl_pc[i] = "returned" =>
                /\ DomainOf(i) \in DOMAIN domain_results
                /\ domain_results[DomainOf(i)] = discovered_by_depth[i]

\* C12: fetch failures are never fatal.  When a crawl goes on from its
\* gather it does not end in an error; a fetch that timed out, met an error
\* or was answered with another status than 200 leaves no URL in what the
\* crawl has recorded, and a batch of failed fetches only leaves the queue
\* shorter; the pages of the same batch are recorded, and the task at the
\* head of the queue, when admissible, is in the next batch.  When the fetch
\* of the seed fails the crawl returns an empty mapping, and the orchestration
\* returns the mapping of every crawl that returned under its domain.
C12_FetchFailuresNotFatal ==
    /\ [][FailedFetchesAddNothing]_vars
    /\ []ReturnedCrawlsAreReturned

\* Witness of C12: the results of a batch are in, one of them a timeout and
\* another a page with a body, more tasks are queued, and the crawl has
\* recorded a page before.
C12_Witness ==
    \E i \in Crawls :
        /\ BatchFetched(i)
        /\ discovered_by_depth[i] # {}
        /\ crawl_queue[DomainOf(i)] # << >>
        /\ \E k, l \in 1..Len(fetch[i]) :
              /\ fetch[i][k].pc = "done" /\ fetch[i][k].status = 408
              /\ fetch[i][l].pc = "done" /\ fetch[i][l].status = 200
              /\ fetch[i][l].content # ""

\* ---- C13
\* The tasks of the batch of crawl i whose fetch returned 200 and a body
\* that is not empty, as << depth, url >>.
PagesOfBatch(i) ==
    { << current_batch[i][k].depth, current_batch[i][k].url >> :
        k \in { l \in 1..Len(current_batch[i]) :
                  /\ fetch[i][l].pc = "done"
                  /\ fetch[i][l].status = 200
                  /\ fetch[i][l].content # "" } }

\* What a step does to what crawl i has recorded: the step that processes
\* a batch adds the pages of the batch under the depths they were admitted
\* at, and nothing else; no other step changes it.
RecordsPagesOfBatch ==
    \A i \in Crawls :
        IF Resumes(i)
        THEN discovered_by_depth'[i] = discovered_by_depth[i] \cup PagesOfBatch(i)
        ELSE discovered_by_depth'[i] = discovered_by_depth[i]

\* Every recorded URL was admitted and answered with 200 and a body.
RecordedWereAnswered ==
    \A i \in Crawls : \A e \in discovered_by_depth[i] :
        e[2] \in visited_urls /\ e[2] \in ok_urls

\* C13: a URL is recorded under a depth if and only if it was admitted for
\* fetch at that depth and its fetch returned 200 with a body that is not
\* empty: an empty body, another status, a timeout or an error records
\* nothing.
C13_RecordedIffPage ==
    /\ [][RecordsPagesOfBatch]_vars
    /\ []RecordedWereAnswered

\* Witness of C13: the orchestration has returned a result with a page of
\* depth 1, and a URL of that domain was admitted and fetched, not answered
\* with a page, and is not recorded.
C13_Witness ==
    /\ orch_pc = "returned"
    /\ \E i \in Crawls :
          /\ DomainOf(i) \in DOMAIN domain_results
          /\ \E e \in domain_results[DomainOf(i)] : e[1] = 1
          /\ \E u \in visited_urls \ ok_urls :
                /\ get_domain(u) = DomainOf(i)
                /\ \A e \in domain_results[DomainOf(i)] : e[2] # u

\* ---- C14
\* C14: crawl state is scoped to one invocation.  When two consecutive
\* invocations with the same seeds on one crawler have both returned and no
\* crawl of either met an error of its own, the second returned what the
\* first returned.  (No URL is fetched twice by one crawler, so every
\* behaviour is a behaviour over one unchanging web.)
C14_InvocationsAgree ==
    (/\ orch_pc = "returned"
     /\ Len(earlier_results) = 1
     /\ \A i \in Crawls : crawl_pc[i] = "returned"
     /\ DOMAIN earlier_results[1] = { DomainOf(i) : i \in Crawls })
        => domain_results = earlier_results[1]

\* ---- C15
\* The visited URLs admitted by the crawl of domain d: a crawl admits only
\* URLs of its own host.
VisitedOf(d) == { u \in visited_urls : get_domain(u) = d }

\* C15: in every state, whatever the interleaving of the domain crawls, the
\* page count of each domain is the number of visited URLs that domain's
\* crawl admitted, every visited URL is one a started crawl admitted, and a
\* step that grows one grows the other by as much.
C15_PageCountIsVisited ==
    /\ [](\A d \in Domains : domain_page_count[d] = Cardinality(VisitedOf(d)))
    /\ [](\A u \in visited_urls : \E i \in Crawls : DomainOf(i) = get_domain(u))
    /\ [][\A d \in Domains :
             domain_page_count'[d] - domain_page_count[d] =
                 Cardinality(VisitedOf(d)') - Cardinality(VisitedOf(d))]_vars

\* Witness of C15: two domain crawls are fetching at once, one of them with
\* two pages counted, the other with one.
C15_Witness ==
    \E i, j \in Crawls :
        /\ crawl_pc[i] = "gathering" /\ crawl_pc[j] = "gathering"
        /\ domain_page_count[DomainOf(i)] = 2
        /\ domain_page_count[DomainOf(j)] = 1
        /\ Cardinality(visited_urls) = 3

\* ---- C16
\* The step at hand is a step of crawl b: of its coroutine or of one of its
\* fetches.
StepOf(b) ==
    \/ crawl_pc'[b] # crawl_pc[b]
    \/ current_batch'[b] # current_batch[b]
    \/ fetch'[b] # fetch[b]

\* What belongs to the crawl of domain A alone is left as it is by every
\* step of the crawl of another domain B.
OtherCrawlsUntouched ==
    \A a, b \in Crawls :
        (a # b /\ StepOf(b)) =>
            /\ crawl_queue'[DomainOf(a)] = crawl_queue[DomainOf(a)]
            /\ domain_page_count'[DomainOf(a)] = domain_page_count[DomainOf(a)]
            /\ discovered_by_depth'[a] = discovered_by_depth[a]
            /\ VisitedOf(DomainOf(a))' = VisitedOf(DomainOf(a))
            /\ current_batch'[a] = current_batch[a]
            /\ crawl_pc'[a] = crawl_pc[a]

\* What a crawl works on is of its own domain: the tasks it has queued, is
\* fetching or has recorded have its host, and no two crawls have one
\* domain.
CrawlsKeepToTheirDomain ==
    \A a \in Crawls :
        /\ \A t \in Pending(a) \cup Batch(a) : get_domain(t.url) = DomainOf(a)
        /\ \A e \in discovered_by_depth[a] : get_domain(e[2]) = DomainOf(a)
        /\ \A b \in Crawls : DomainOf(a) = DomainOf(b) => a = b

\* C16: no interference between domains.  No step of the crawl of B changes
\* the pending queue, the page count or the recorded URLs of the crawl of A,
\* nor whether a URL of A's host is visited; every crawl reads and writes
\* tasks and URLs of its own host only.
C16_NoInterference ==
    /\ [][OtherCrawlsUntouched]_vars
    /\ []CrawlsKeepToTheirDomain

\* Witness of C16: two crawls are under way at once; one has recorded a
\* page, is fetching the next and has a task pending, while the fetch of the
\* other has been answered with a page.
C16_Witness ==
    \E a, b \in Crawls :
        /\ a # b
        /\ crawl_pc[a] = "gathering" /\ crawl_pc[b] = "gathering"
        /\ discovered_by_depth[a] # {}
        /\ crawl_queue[DomainOf(a)] # << >>
        /\ \E k \in 1..Len(fetch[b]) :
              fetch[b][k].pc = "done" /\ fetch[b][k].status = 200 /\ fetch[b][k].content # ""

\* ---- C17
\* C17: is_valid_url returns true only for a URL with an http or https
\* scheme, a host that is not empty and is the base domain, and a path that
\* does not end in a blocked extension; it returns false, and does not
\* raise, on a URL that cannot be split.
C17_InScopeOnlyIf ==
    call.pc = "is_valid_url" =>
        /\ call.ret[1] \in BOOLEAN
        /\ urlparse_raises(call.url) => call.ret[1] = FALSE
        /\ call.ret[1] =>
              /\ call.url.scheme \in {"http", "https"}
              /\ call.url.netloc # ""
              /\ Lower(call.url.netloc) = call.base_domain
              /\ call.url.netloc # "www.a.test"
              /\ Lower(call.url.ext) \notin skip_extensions

C19_PartialResultsOnCancel ==
    orch_pc = "cancelled" =>
        \A i \in Crawls :
            crawl_pc[i] = "returned" =>
                /\ DomainOf(i) \in DOMAIN domain_results
                /\ domain_results[DomainOf(i)] = discovered_by_depth[i]

\* C19 as amended: when the orchestration is cancelled while it awaits its
\* crawls, no map is handed to the caller, whatever crawls had completed;
\* every crawl that had not ended is cancelled with its fetches, and every
\* fetch slot is given back.
C19_CancelReturnsNothing ==
    orch_pc = "cancelled" =>
        /\ domain_results = << >>
        /\ \A i \in Crawls :
              /\ crawl_pc[i] \in {"returned", "raised", "cancelled"}
              /\ fetch[i] = << >>
        /\ semaphore = max_concurrent

\* Witness of C19: the orchestration was cancelled when one crawl had
\* returned a page and another was still under way.
C19_Witness ==
    /\ orch_pc = "cancelled"
    /\ \E i, j \in Crawls :
          /\ crawl_pc[i] = "returned" /\ discovered_by_depth[i] # {}
          /\ crawl_pc[j] = "cancelled"

\* ---- C20
\* C20: a domain crawl ends only when the page budget is used up or pending
\* holds no admissible task (not visited, depth within max_depth): no crawl
\* has returned while a task the batch loop would admit is still queued.
C20_StopsOnlyWithoutWork ==
    \A i \in Crawls :
        crawl_pc[i] = "returned" =>
            \A t \in Pending(i) : ~Admissible(t, DomainOf(i))

\* ---- C21
\* The step at hand hands a new batch of crawl i to gather.
StartsBatch(i) ==
    /\ current_batch'[i] # current_batch[i]
    /\ current_batch'[i] # << >>

\* Every pass of the while loop that does not end the crawl admits one URL
\* or more, none of them visited before, and counts each of them.
EveryBatchAdmitsNewUrls ==
    \A i \in Crawls \cap DOMAIN current_batch' :
        StartsBatch(i) =>
            /\ \A k \in 1..Len(current_batch'[i]) :
                  /\ current_batch'[i][k].url \notin visited_urls
                  /\ current_batch'[i][k].url \in visited_urls'
            /\ domain_page_count'[DomainOf(i)] =
                  domain_page_count[DomainOf(i)] + Len(current_batch'[i])
            /\ domain_page_count'[DomainOf(i)] <= max_pages_per_domain

\* C21: termination.  When every fetch is answered in the end, on every
\* link graph (pages that link to themselves and to each other included)
\* every domain crawl ends and the orchestration returns; every batch
\* admits at least one URL not visited before and counts it, and the count
\* stays within max_pages_per_domain, so a domain has at most that many
\* batches.
C21_Termination ==
    /\ <>(orch_pc = "returned" /\ \A i \in Crawls : crawl_pc[i] \in {"returned", "raised"})
    /\ [][EveryBatchAdmitsNewUrls]_vars

\* Witness of C21: a crawl has recorded a page that the page itself or a
\* page it links to links back to, has used its whole budget of three pages
\* or more, and the orchestration has returned.
C21_Witness ==
    /\ orch_pc = "returned"
    /\ max_pages_per_domain = 3
    /\ \E i \in Crawls :
          /\ crawl_pc[i] = "returned"
          /\ domain_page_count[DomainOf(i)] = max_pages_per_domain
          /\ \E e \in discovered_by_depth[i] : e[1] = 2

\* ---- C22
\* The depths of a sequence of tasks do not decrease along it.
NonDecreasing(tasks) ==
    \A k, l \in 1..Len(tasks) : k <= l => tasks[k].depth <= tasks[l].depth

\* The length of the longest end of the sequence old that the sequence new
\* begins with.
KeptLen(old, new) ==
    CHOOSE n \in 0..Min(Len(old), Len(new)) :
        /\ SubSeq(old, Len(old) - n + 1, Len(old)) = SubSeq(new, 1, n)
        /\ \A m \in (n + 1)..Min(Len(old), Len(new)) :
              SubSeq(old, Len(old) - m + 1, Len(old)) # SubSeq(new, 1, m)

\* When a crawl goes on from its gather, the tasks left of the old queue
\* are an end of it and stand at the front of the new queue; what follows
\* them are tasks pushed in this step, one level below a page of the batch.
\* The batch built in the step is no shallower than the batch before it.
LeavesFromFrontJoinsAtBack ==
    \A i \in Crawls :
        Resumes(i) =>
            LET old == crawl_queue[DomainOf(i)]
                new == crawl_queue'[DomainOf(i)]
            IN /\ \A k \in (KeptLen(old, new) + 1)..Len(new) :
                     \E b \in 1..Len(current_batch[i]) :
                         /\ ~Failed(i, b)
                         /\ new[k].depth = current_batch[i][b].depth + 1
               /\ \A b \in 1..Len(current_batch[i]) : \A c \in 1..Len(current_batch'[i]) :
                     current_batch[i][b].depth <= current_batch'[i][c].depth

\* C22: breadth-first FIFO order.  Tasks leave a domain's queue at the
\* front and join it at the back; in every state the depths of the queued
\* tasks do not decrease from front to back and no queued task is shallower
\* than a task of the batch being fetched, so the depths of the tasks
\* admitted one after another never decrease.
C22_FifoOrder ==
    /\ [](\A i \in Crawls :
            /\ NonDecreasing(crawl_queue[DomainOf(i)])
            /\ NonDecreasing(current_batch[i])
            /\ \A t \in Batch(i) : \A u \in Pending(i) : t.depth <= u.depth)
    /\ [][LeavesFromFrontJoinsAtBack]_vars

\* Witness of C22: a crawl fetches a batch of depth 2 while tasks of depth 1
\* have been fetched and a task of depth 2 waits behind in the queue.
C22_Witness ==
    \E i \in Crawls :
        /\ crawl_pc[i] = "gathering"
        /\ \E t \in Batch(i) : t.depth = 2
        /\ \E e \in discovered_by_depth[i] : e[1] = 1
        /\ \E u \in Pending(i) : u.depth = 2

\* ---- C23
\* C23: first-discovery depth wins.  A URL is admitted to a batch and
\* recorded at one depth only, and every task for it that is still queued
\* (pushed again from another page before the URL was dequeued) is at that
\* depth or deeper: the task admitted is the shallowest pushed for the URL.
C23_FirstDiscoveryDepthWins ==
    \A i \in Crawls :
        /\ \A t \in Batch(i) : \A u \in Pending(i) :
              u.url = t.url => u.depth >= t.depth
        /\ \A e \in discovered_by_depth[i] : \A u \in Pending(i) :
              u.url = e[2] => u.depth >= e[1]
        /\ \A e, f \in discovered_by_depth[i] : e[2] = f[2] => e[1] = f[1]
        /\ \A k, l \in 1..Len(current_batch[i]) :
              current_batch[i][k].url = current_batch[i][l].url => k = l
        /\ \A t \in Batch(i) : \A e \in discovered_by_depth[i] : t.url # e[2]

\* Witness of C23: a URL recorded at depth 1 is still queued at depth 2,
\* pushed a second time by a page of depth 1.
C23_Witness ==
    \E i \in Crawls :
        \E e \in discovered_by_depth[i] : \E u \in Pending(i) :
            /\ e[1] = 1
            /\ u.url = e[2]
            /\ u.depth = 2

\* ---- C24
\* The URLs of the batches being fetched.
BatchUrls == UNION { { t.url : t \in Batch(i) } : i \in Crawls }

\* A batch is built from URLs that were not visited, and the tasks that
\* join the queue when a crawl goes on from its gather are for URLs that
\* were not visited either, the URLs in flight included.
NoSecondFetchNoSecondPush ==
    \A i \in Crawls \cap DOMAIN current_batch' :
        /\ StartsBatch(i) =>
              \A k \in 1..Len(current_batch'[i]) : current_batch'[i][k].url \notin visited_urls
        /\ Resumes(i) =>
              LET old == crawl_queue[DomainOf(i)]
                  new == crawl_queue'[DomainOf(i)]
              IN \A k \in (KeptLen(old, new) + 1)..Len(new) :
                     new[k].url \notin visited_urls

\* C24: visited at dequeue.  The URL of every task of a batch is in
\* visited_urls from the step that built the batch, before any of its
\* fetches starts; a visited URL is not pushed again and is in no later
\* batch, and no URL is in two batches at once or twice in one.
C24_VisitedAtDequeue ==
    /\ [](/\ BatchUrls \subseteq visited_urls
          /\ ok_urls \subseteq visited_urls
          /\ \A i \in Crawls : \A k, l \in 1..Len(current_batch[i]) :
                current_batch[i][k].url = current_batch[i][l].url => k = l
          /\ \A i, j \in Crawls : i # j =>
                { t.url : t \in Batch(i) } \cap { t.url : t \in Batch(j) } = {})
    /\ [][NoSecondFetchNoSecondPush]_vars

\* Witness of C24: a URL is in a batch whose fetches have not started, it
\* is visited, and a second task for it, pushed by another page, is queued.
C24_Witness ==
    \E i \in Crawls :
        /\ crawl_pc[i] = "gathering"
        /\ \A k \in 1..Len(fetch[i]) : fetch[i][k].pc = "waiting"
        /\ \E t \in Batch(i) : \E u \in Pending(i) :
              /\ u.url = t.url
              /\ t.url \in visited_urls

\* ---- C25
\* The URLs of crawl i that were admitted and whose fetch ended without a
\* page: visited, not recorded, not in the batch being fetched.
Unrecorded(i) ==
    { u \in VisitedOf(DomainOf(i)) :
        /\ \A e \in discovered_by_depth[i] : e[2] # u
        /\ \A t \in Batch(i) : t.url # u }

\* No step takes a URL out of visited_urls or lowers a page count; a URL of
\* the batch that came back without a page is neither in the next batch nor
\* pushed again, and no batch holds a URL that was visited without a page.
AdmissionIsFinal ==
    /\ visited_urls \subseteq visited_urls'
    /\ \A d \in DOMAIN domain_page_count : domain_page_count'[d] >= domain_page_count[d]
    /\ \A i \in Crawls \cap DOMAIN current_batch' :
          /\ StartsBatch(i) =>
                \A t \in Batch(i)' : t.url \notin visited_urls \ ok_urls
          /\ Resumes(i) =>
                \A k \in 1..Len(current_batch[i]) :
                    ~HasContent(i, k) =>
                        /\ current_batch[i][k].url \in visited_urls'
                        /\ \A t \in Batch(i)' : t.url # current_batch[i][k].url
                        /\ \A q \in (KeptLen(crawl_queue[DomainOf(i)], crawl_queue'[DomainOf(i)]) + 1)
                                        ..Len(crawl_queue'[DomainOf(i)]) :
                              crawl_queue'[DomainOf(i)][q].url # current_batch[i][k].url

\* C25: a failed fetch keeps its admission.  visited_urls and the page
\* counts never go back, a URL whose fetch failed or brought no content is
\* not fetched or pushed again, and the page count of a domain is the
\* number of its URLs recorded, in flight and ended without a page: a
\* failed fetch uses the budget as a successful one does.
C25_FailedFetchKeepsAdmission ==
    /\ [][AdmissionIsFinal]_vars
    /\ [](\A i \in Crawls :
            domain_page_count[DomainOf(i)] =
                UrlCount(discovered_by_depth[i]) + Len(current_batch[i])
                    + Cardinality(Unrecorded(i)))

\* Witness of C25: a crawl has returned with its budget used up, a URL of
\* it was admitted and brought no page, and a task for a URL never visited
\* is left in the queue.
C25_Witness ==
    \E i \in Crawls :
        /\ crawl_pc[i] = "returned"
        /\ domain_page_count[DomainOf(i)] = max_pages_per_domain
        /\ Unrecorded(i) # {}
        /\ discovered_by_depth[i] # {}
        /\ \E u \in Pending(i) : u.url \notin visited_urls

\* ---- C26
\* The step at hand is a call of op by caller t.
Calls(t, op) == threads'[t] # threads[t] /\ threads'[t].op = op

\* The stored key that was used longest ago (a put and a get that found
\* the key are uses), by the clock of the calls.
LeastRecentlyUsed ==
    CHOOSE h \in Keys(_data) : \A g \in Keys(_data) : uses.last_use[h] <= uses.last_use[g]

\* A put of a key that is stored changes its value and nothing else; a put
\* of a new key into a full cache takes out the least recently used key and
\* no other; a put of a new key into a cache with room takes out nothing.
PutEvictsLeastRecentlyUsed ==
    \A t \in DOMAIN threads :
        Calls(t, "put") /\ max_size >= 1 =>
            LET h == _hash(threads'[t].query)
            IN /\ threads'[t].raised = ""
               /\ h \in Keys(_data')
               /\ ValueOf(_data', h) = threads'[t].value
               /\ \A g \in Keys(_data') \ {h} : ValueOf(_data', g) = ValueOf(_data, g)
               /\ Keys(_data') \ {h} =
                     IF h \notin Keys(_data) /\ Len(_data) = max_size
                     THEN Keys(_data) \ {LeastRecentlyUsed}
                     ELSE Keys(_data) \ {h}

\* C26: capacity and eviction.  A cache with max_size >= 1 never holds more
\* than max_size entries and holds no key twice; a put of a new key into a
\* full cache evicts the least recently used entry and no other, a get that
\* finds the key and a put being uses; a put of a stored key replaces its
\* value and evicts nothing.
C26_CapacityAndEviction ==
    /\ [](max_size >= 1 =>
            /\ Len(_data) <= max_size
            /\ Cardinality(Keys(_data)) = Len(_data)
            /\ Keys(_data) = uses.stored)
    /\ [][PutEvictsLeastRecentlyUsed]_vars

\* Witness of C26: the last call was a put of a new key into a full cache of
\* two entries, and the entry it left in the cache is the one that was put
\* first and read by a get after the other was put.
C26_Witness ==
    /\ max_size = 2
    /\ Len(_data) = 2
    /\ threads[1].pc = "returned"
    /\ threads[1].op = "put"
    /\ uses.clock = 4
    /\ uses.last_use[_data[2].key] = 4
    /\ uses.last_use[_data[1].key] = 3
    /\ \E h \in Hashes \ Keys(_data) : uses.last_use[h] = 2

\* ---- C27
\* No get has reported a miss for a key that was stored when it looked.
NoMissOfStoredKey ==
    \A t \in DOMAIN threads :
        threads[t].pc = "raised" /\ threads[t].raised = CacheMissException
            => ~threads[t].stored

\* When no call is under way, every key stored (put and not evicted since)
\* is in the dict with the value last put for it.
NoEntryLost ==
    (\A t \in DOMAIN threads : ~InCall(t)) =>
        \A h \in uses.stored : h \in Keys(_data) /\ ValueOf(_data, h) = uses.last_put[h]

SizeBound == max_size >= 1 => Len(_data) <= max_size

\* C27: thread safety.  With get and put called from several threads at
\* once, a get for a key that is stored never reports a miss (the pop and
\* the assignment of get are not seen apart), no entry is lost and the
\* cache holds at most max_size entries.
C27_ThreadSafe == NoMissOfStoredKey /\ NoEntryLost /\ SizeBound

\* ---- C28
\* A get of a key that is not stored raises CacheMissException and leaves
\* the dict as it is, order included; a get of a stored key returns the
\* value last put for it and keeps every entry.
GetMissesOrReturnsLastPut ==
    \A t \in DOMAIN threads :
        Calls(t, "get") =>
            LET h == _hash(threads'[t].query)
            IN IF h \in uses.stored
               THEN /\ threads'[t].pc = "returned"
                    /\ threads'[t].value = uses.last_put[h]
                    /\ Keys(_data') = Keys(_data)
                    /\ \A g \in Keys(_data) : ValueOf(_data', g) = ValueOf(_data, g)
               ELSE /\ threads'[t].pc = "raised"
                    /\ threads'[t].raised = CacheMissException
                    /\ _data' = _data

\* C28: cache miss.  A get for a key that is not stored (never put, or put
\* and evicted since) raises CacheMissException and changes neither the
\* contents nor the order of the cache; a get for a stored key returns the
\* value most recently put for it.
C28_MissRaisesHitReturnsLastPut == [][GetMissesOrReturnsLastPut]_vars

\* Witness of C28: the last call was a get that raised CacheMissException
\* for a key that had been put and evicted, the cache holding other keys.
C28_Witness ==
    /\ threads[1].pc = "raised"
    /\ threads[1].op = "get"
    /\ threads[1].raised = CacheMissException
    /\ uses.last_put[_hash(threads[1].query)] # "none"
    /\ threads[1].query = " Q "
    /\ _data # << >>

\* ---- C29
\* The query as the claim compares it: in lower case, without the
\* whitespace around it.
KeyOf(query) == IF query \in {"q", "Q", " q", " Q ", "q "} THEN "q" ELSE query

\* The step at hand is search s being called, and search s coming back
\* from the client.
Searches(s) == searches'[s] # searches[s] /\ ~InSearch(s)

Fetched(s) == InSearch(s) /\ ~InSearch(s)'

\* A search of a query whose key is stored returns the value last stored
\* for the key and calls no client, whatever its num_results; a search of
\* another query calls the client once, with the query, and leaves the
\* cache as it is.
SearchReadsCacheFirst ==
    \A s \in DOMAIN searches :
        Searches(s) /\ enable_cache =>
            LET h == KeyOf(searches'[s].query)
            IN IF h \in uses.stored
               THEN /\ searches'[s].pc = "returned"
                    /\ searches'[s].result = uses.last_put[h]
                    /\ searches'[s].fetched = << >>
                    /\ Keys(_data') = Keys(_data)
               ELSE /\ searches'[s].pc = "fetching"
                    /\ Len(searches'[s].fetched) = 1
                    /\ searches'[s].fetched[1][1] = searches'[s].query
                    /\ _data' = _data

\* What the client returns is returned; it is stored under the key of the
\* query if and only if it is not empty.  When the client raises, the
\* search raises the same and the cache is as it was.
SearchStoresWhatItFetched ==
    \A s \in DOMAIN searches :
        Fetched(s) /\ enable_cache =>
            LET h == KeyOf(searches[s].query)
            IN /\ Len(searches'[s].fetched) = 1
               /\ IF searches'[s].pc = "raised"
                  THEN /\ searches'[s].raised = APIRequestException
                       /\ _data' = _data
                  ELSE /\ searches'[s].pc = "returned"
                       /\ IF searches'[s].result = EmptyResult
                          THEN _data' = _data
                          ELSE /\ h \in Keys(_data')
                               /\ ValueOf(_data', h) = searches'[s].result
                               /\ _data'[Len(_data')].key = h

\* C29: search service caching.  With the cache enabled, a search whose
\* query is cached (compared in lower case, surrounding whitespace
\* stripped) returns the cached data without a call of the client, whatever
\* num_results it is given; on a miss the client is called once, a result
\* that is not empty is stored and an empty one is not, and a failure of
\* the client is raised by the search and leaves the cache unchanged.
C29_SearchCaching ==
    /\ [][SearchReadsCacheFirst]_vars
    /\ [][SearchStoresWhatItFetched]_vars

\* Witness of C29: a search of " Q " for 11 results has returned, without a
\* call of the client, what an earlier search of "q" had stored.
C29_Witness ==
    \E s \in DOMAIN searches :
        /\ enable_cache
        /\ searches[s].pc = "returned"
        /\ searches[s].query = " Q "
        /\ searches[s].num_results = 11
        /\ searches[s].fetched = << >>
        /\ searches[s].result = "d2"
        /\ \E k \in 1..Len(_data) : _data[k] = [key |-> "q", value |-> "d2"]

====
